---- MODULE Spec2Model ----
(***************************************************************************)
(* rpc-perf: the orchestration in src/main.rs (main, choose_layer_3,       *)
(* start) together with the collaborators it drives: the Net Layer, the    *)
(* Connection state machine, the Work Queue, the workload generators and   *)
(* the Stats Receiver.  main.rs is modelled from its code; the             *)
(* collaborators, whose modules (client, connection, net, stats, request)  *)
(* are declared in main.rs but defined elsewhere, are modelled from the    *)
(* design document.                                                        *)
(***************************************************************************)
EXTENDS Integers, Sequences, FiniteSets, TLC

\* ---------------------------------------------------------------- bounds
\* most --server options on the command line
MaxServers == 2
\* largest --connections value
MaxConns == 2
\* largest --threads value
MaxThreads == 2
\* largest --windows value
MaxWindows == 2
\* most requests the workload generators push during a run
MaxGenerated == 1
\* most socket errors and malformed responses during a run
MaxFaults == 1
\* capacity of the Work Queue: const BUCKET_SIZE (10_000 in main.rs:62),
\* scaled down so that a full queue is reachable
BUCKET_SIZE == 1
\* capacity of a Client's connection table (the Slab built by Client::new);
\* insert_with yields None once it is full (main.rs:87,102)
TableCap == 2
\* last reading of the clock (readings are 0 .. MaxClock)
MaxClock == 2
\* number of buckets of a Window's latency histogram: latencies
\* 0 .. HistBuckets - 1 have a bucket
HistBuckets == 2
\* most times a connection finds the Work Queue empty during a run
MaxEmptyPolls == 1

\* ---------------------------------------------------------- input domains
\* A server name resolves to a list of endpoints, each of one IP family;
\* the empty list is a name that does not resolve.
ServerKinds == { <<"v4">>, <<"v6", "v4">>, <<>> }

RECURSIVE SeqsUpTo(_, _)
SeqsUpTo(S, n) ==
  IF n = 0 THEN { <<>> }
  ELSE LET shorter == SeqsUpTo(S, n - 1)
       IN  shorter \cup { Append(q, x) : q \in { r \in shorter : Len(r) = n - 1 }, x \in S }

\* prepare() of the protocol: -1 is Err, n >= 0 is Ok with n requests
PrepareResults == (-1) .. (BUCKET_SIZE + 1)

Configs ==
  [ servers     : SeqsUpTo(ServerKinds, MaxServers),
    ipv4        : BOOLEAN,
    ipv6        : BOOLEAN,
    load_ok     : BOOLEAN,
    prepare     : PrepareResults,
    threads     : 1 .. MaxThreads,
    connections : 1 .. MaxConns,
    windows     : 1 .. MaxWindows ]

Threads == 1 .. MaxThreads

VARIABLES
  cfg,                \* command line and loaded configuration (matches, config)
  mainPc,             \* position of main
  fatal,              \* which configuration-fatal return main took, or "none"
  proc,               \* "running" or "exited"
  exitCode,           \* process exit status, -1 while running
  internet_protocol,  \* main's internet_protocol, "unset" before it is chosen
  work_queue,         \* the Work Queue: a sequence of request ids
  nextItem,           \* number of requests pushed so far (ids are 1..nextItem)
  generated,          \* number of requests pushed by the workload generators
  popCount,           \* per request id: how many times it was popped
  launched,           \* workload generators launched
  chanOpen,           \* measurement channel and Receiver created
  spawned,            \* number of worker threads spawned
  worker,             \* per worker thread: the state of start()
  channel,            \* measurement channel: Stats sent and not yet received
  sentCount,          \* per request id: Stats sent for it
  doneCount,          \* per request id: times its attempt completed or failed
  faults,             \* socket errors and malformed responses so far
  now,                \* the last reading of the clock
  flushedAt,          \* per request id: the clock reading at its full flush, or -1
  emptyPolls,         \* times a connection found the Work Queue empty so far
  receiver            \* the Stats Receiver

vars == << cfg, mainPc, fatal, proc, exitCode, internet_protocol, work_queue,
           nextItem, generated, popCount, launched, chanOpen, spawned, worker,
           channel, sentCount, doneCount, faults, now, flushedAt, emptyPolls,
           receiver >>

MaxItems == BUCKET_SIZE + 1 + MaxGenerated
Items == 1 .. MaxItems

\* ------------------------------------------------------- choose_layer_3
\* fn choose_layer_3(ipv4, ipv6) -> Result<InternetProtocol, String>
choose_layer_3_swapped(ipv4, ipv6) ==
  IF ipv4 /\ ipv6 THEN "Err"
  ELSE IF ~ipv4 /\ ~ipv6 THEN "Any"
  ELSE IF ipv4 THEN "IpV6"
  ELSE "IpV4"

choose_layer_3_lenient(ipv4, ipv6) ==
  IF ~ipv4 /\ ~ipv6 THEN "Any"
  ELSE IF ipv4 THEN "IpV4"
  ELSE "IpV6"

choose_layer_3(ipv4, ipv6) ==
  IF ipv4 /\ ipv6 THEN "Err"
  ELSE IF ~ipv4 /\ ~ipv6 THEN "Any"
  ELSE IF ipv4 THEN "IpV4"
  ELSE IF ipv6 THEN "IpV6"
  ELSE "Err"

\* -------------------------------------------------------------- Work Queue
\* BoundedQueue::with_capacity(BUCKET_SIZE)
with_capacity_off_by_one == BUCKET_SIZE + 1

with_capacity == BUCKET_SIZE

\* push: Ok and the item is appended, or Err (the item is handed back) when
\* the queue holds `capacity` items
push_ok(q) == Len(q) < with_capacity

\* ------------------------------------------------------------------- Init
InitWorker ==
  [ pc |-> "unspawned", proto |-> "unset", s |-> 1, k |-> 0,
    failures |-> 0, connects |-> 0, attempts |-> 0, rejected |-> 0,
    protos |-> {}, addrs |-> {}, conns |-> <<>> ]

Buckets == 0 .. (HistBuckets - 1)

InitReceiver ==
  [ started |-> FALSE, windows |-> 0, closed |-> 0, summaries |-> 0,
    success |-> 0, protocol_error |-> 0, connection_error |-> 0,
    hist |-> [ b \in Buckets |-> 0 ], folded |-> {}, sealed |-> <<>>,
    got |-> {} ]

Init ==
  /\ cfg \in Configs
  /\ mainPc = "config"
  /\ fatal = "none"
  /\ proc = "running"
  /\ exitCode = -1
  /\ internet_protocol = "unset"
  /\ work_queue = <<>>
  /\ nextItem = 0
  /\ generated = 0
  /\ popCount = [ i \in Items |-> 0 ]
  /\ launched = FALSE
  /\ chanOpen = FALSE
  /\ spawned = 0
  /\ worker = [ w \in Threads |-> InitWorker ]
  /\ channel = <<>>
  /\ sentCount = [ i \in Items |-> 0 ]
  /\ doneCount = [ i \in Items |-> 0 ]
  /\ faults = 0
  /\ now = 0
  /\ flushedAt = [ i \in Items |-> -1 ]
  /\ emptyPolls = 0
  /\ receiver = InitReceiver

\* ------------------------------------------------------------------- main
\* The configuration-fatal checks of main in the order it makes them:
\* the reason of the first one that fires, or "none".
ConfigFatal_no_layer3_check(c) ==
  IF Len(c.servers) < 1 THEN "no_server"
  ELSE IF ~c.load_ok THEN "load_config"
  ELSE "none"

ConfigFatal(c) ==
  IF Len(c.servers) < 1 THEN "no_server"
  ELSE IF ~c.load_ok THEN "load_config"
  ELSE IF choose_layer_3(c.ipv4, c.ipv6) = "Err" THEN "layer3"
  ELSE "none"

\* main returns: the process ends with status 0
MainReturns(reason) ==
  /\ mainPc' = "returned"
  /\ fatal' = reason
  /\ proc' = "exited"
  /\ exitCode' = 0

\* server check, load_config, choose_layer_3
MainConfig ==
  /\ proc = "running" /\ mainPc = "config"
  /\ IF ConfigFatal(cfg) # "none"
       THEN /\ MainReturns(ConfigFatal(cfg))
            /\ UNCHANGED internet_protocol
       ELSE /\ internet_protocol' = choose_layer_3(cfg.ipv4, cfg.ipv6)
            /\ mainPc' = "seed"
            /\ UNCHANGED << fatal, proc, exitCode >>
  /\ UNCHANGED << faults, now, flushedAt, emptyPolls, cfg, work_queue, nextItem, generated, popCount, launched,
                  chanOpen, spawned, worker, channel, sentCount, doneCount,
                  receiver >>

\* The seeding loop `for b in bs { work_queue.push(b).unwrap(); }` over n
\* requests, from an empty queue: the queue afterwards, and whether an
\* unwrap met Err (the queue was full).
SeedQueue(n) ==
  [ i \in 1 .. (IF n <= with_capacity THEN n ELSE with_capacity) |-> i ]

SeedPanics(n) == n > with_capacity

\* prepare() and the seeding of the Work Queue
MainSeed ==
  /\ proc = "running" /\ mainPc = "seed"
  /\ IF cfg.prepare < 0
       THEN /\ MainReturns("prepare")
            /\ UNCHANGED << work_queue, nextItem >>
       ELSE /\ work_queue' = SeedQueue(cfg.prepare)
            /\ nextItem' = Len(SeedQueue(cfg.prepare))
            /\ IF SeedPanics(cfg.prepare)
                 THEN /\ mainPc' = "panicked"
                      /\ proc' = "exited"
                      /\ exitCode' = 101
                      /\ UNCHANGED fatal
                 ELSE /\ mainPc' = "launch"
                      /\ UNCHANGED << fatal, proc, exitCode >>
  /\ UNCHANGED << faults, now, flushedAt, emptyPolls, cfg, internet_protocol, generated, popCount, launched,
                  chanOpen, spawned, worker, channel, sentCount, doneCount,
                  receiver >>

\* workload::launch_workloads(...)
MainLaunch ==
  /\ proc = "running" /\ mainPc = "launch"
  /\ launched' = TRUE
  /\ mainPc' = "channel"
  /\ UNCHANGED << faults, now, flushedAt, emptyPolls, cfg, fatal, proc, exitCode, internet_protocol, work_queue,
                  nextItem, generated, popCount, chanOpen, spawned, worker,
                  channel, sentCount, doneCount, receiver >>

\* mpsc::channel() and stats::Receiver::new
MainChannel ==
  /\ proc = "running" /\ mainPc = "channel"
  /\ chanOpen' = TRUE
  /\ mainPc' = "spawn"
  /\ UNCHANGED << faults, now, flushedAt, emptyPolls, cfg, fatal, proc, exitCode, internet_protocol, work_queue,
                  nextItem, generated, popCount, launched, spawned, worker,
                  channel, sentCount, doneCount, receiver >>

\* one iteration of `for i in 0..config.threads`: the ClientConfig snapshot
\* and thread::spawn
MainSpawn ==
  /\ proc = "running" /\ mainPc = "spawn"
  /\ spawned < cfg.threads
  /\ spawned' = spawned + 1
  /\ worker' = [ worker EXCEPT ![spawned + 1] =
                   [ @ EXCEPT !.pc = "connecting", !.proto = internet_protocol ] ]
  /\ UNCHANGED << faults, now, flushedAt, emptyPolls, cfg, mainPc, fatal, proc, exitCode, internet_protocol,
                  work_queue, nextItem, generated, popCount, launched, chanOpen,
                  channel, sentCount, doneCount, receiver >>

\* the window count main hands to receiver.run
RunWindows_one_more == cfg.windows + 1

RunWindows == cfg.windows

\* receiver.run(config.duration, config.windows, ...)
MainRun_returns ==
  /\ proc = "running" /\ mainPc = "spawn"
  /\ spawned = cfg.threads
  /\ mainPc' = "returned"
  /\ proc' = "exited"
  /\ exitCode' = 0
  /\ UNCHANGED << faults, now, flushedAt, emptyPolls, cfg, fatal, internet_protocol, work_queue,
                  nextItem, generated, popCount, launched, chanOpen, spawned,
                  worker, channel, sentCount, doneCount, receiver >>

MainRun_before_all_spawned ==
  /\ proc = "running" /\ mainPc = "spawn"
  /\ spawned >= 1
  /\ mainPc' = "run"
  /\ receiver' = [ receiver EXCEPT !.started = TRUE, !.windows = RunWindows ]
  /\ UNCHANGED << faults, now, flushedAt, emptyPolls, cfg, fatal, proc, exitCode, internet_protocol, work_queue,
                  nextItem, generated, popCount, launched, chanOpen, spawned,
                  worker, channel, sentCount, doneCount >>

MainRun ==
  /\ proc = "running" /\ mainPc = "spawn"
  /\ spawned = cfg.threads
  /\ mainPc' = "run"
  /\ receiver' = [ receiver EXCEPT !.started = TRUE, !.windows = RunWindows ]
  /\ UNCHANGED << faults, now, flushedAt, emptyPolls, cfg, fatal, proc, exitCode, internet_protocol, work_queue,
                  nextItem, generated, popCount, launched, chanOpen, spawned,
                  worker, channel, sentCount, doneCount >>

\* ------------------------------------------------------------- Net Layer
\* whether the family restriction lets an endpoint of family fam through
Allowed(fam, proto) ==
  \/ proto = "Any"
  \/ proto = "IpV4" /\ fam = "v4"
  \/ proto = "IpV6" /\ fam = "v6"

\* net::to_mio_tcp_stream(address, proto): the results it can give for an
\* address of family fam; TRUE is Ok(stream), FALSE is Err
ConnectOutcomes(fam, proto) ==
  IF Allowed(fam, proto) THEN { TRUE, FALSE } ELSE { FALSE }

\* ------------------------------------------------------------------ start
\* Connection::new(stream, token, ...) as insert_with builds it in the slot
\* `token`, and event_loop.register(socket, token, writable, edge | oneshot)
Registered(fam, token) ==
  [ fam |-> fam, state |-> "Connecting", item |-> 0, sent |-> 0, token |-> token,
    interest |-> "writable", opts |-> { "edge", "oneshot" }, regs |-> 1 ]

\* Ok(stream): insert_with, then register and count, or "too many
\* established connections" when the table gives no slot
OnConnected_uncounted(me, fam) ==
  IF Len(me.conns) < TableCap
    THEN [ me EXCEPT !.conns = Append(@, Registered(fam, Len(me.conns) + 1)) ]
    ELSE [ me EXCEPT !.rejected = @ + 1 ]

OnConnected_level_triggered(me, fam) ==
  IF Len(me.conns) < TableCap
    THEN [ me EXCEPT !.conns = Append(@, [ Registered(fam, Len(me.conns) + 1)
                                             EXCEPT !.opts = { "level" } ]),
                     !.connects = @ + 1 ]
    ELSE [ me EXCEPT !.rejected = @ + 1 ]

OnConnected(me, fam) ==
  IF Len(me.conns) < TableCap
    THEN [ me EXCEPT !.conns = Append(@, Registered(fam, Len(me.conns) + 1)),
                     !.connects = @ + 1 ]
    ELSE [ me EXCEPT !.rejected = @ + 1 ]

\* Err(e): count the failure
OnConnectError_and_stop(me) ==
  [ me EXCEPT !.failures = @ + 1, !.s = Len(cfg.servers) + 1, !.k = -1 ]

OnConnectError(me) == [ me EXCEPT !.failures = @ + 1 ]

\* the two nested for loops: next connection of this server, or next server
NextAttempt(me) ==
  IF me.k + 1 >= cfg.connections
    THEN [ me EXCEPT !.s = @ + 1, !.k = 0 ]
    ELSE [ me EXCEPT !.k = @ + 1 ]

\* the server that attempt number i (from 1) of start goes to
ServerOf(i) == cfg.servers[((i - 1) \div cfg.connections) + 1]

\* the number of connections start() was asked to open
Requested == Len(cfg.servers) * cfg.connections

\* The results the connect calls of one start() can have, by attempt
\* number; the calls start() never reaches are FALSE.
ConnectResults(proto) ==
  { oc \in [ 1 .. Requested -> BOOLEAN ] :
      \A i \in 1 .. Requested :
        IF \E j \in 1 .. i : ServerOf(j) = <<>>
          THEN oc[i] = FALSE
          ELSE oc[i] \in ConnectOutcomes(Head(ServerOf(i)), proto) }

\* The two for loops of start from position (me.s, me.k) on: each server's
\* name is resolved to its first endpoint (a name that does not resolve
\* panics the thread), then connections-per-server connects are attempted.
RECURSIVE ConnectLoop(_, _)
ConnectLoop(me, oc) ==
  IF me.s > Len(cfg.servers) THEN me
  ELSE IF cfg.servers[me.s] = <<>> THEN [ me EXCEPT !.pc = "panicked" ]
  ELSE LET address == Head(cfg.servers[me.s])
           tried == [ me EXCEPT !.attempts = @ + 1,
                                !.protos = @ \cup { me.proto },
                                !.addrs = @ \cup { << me.s, address >> } ]
           after == IF oc[me.attempts + 1] THEN OnConnected(tried, address)
                                           ELSE OnConnectError(tried)
       IN  ConnectLoop(NextAttempt(after), oc)

\* the test `failures == config.connections` that decides process::exit(1)
AllFailed(me) == me.failures = cfg.connections

\* start(config) up to its last statement: the connects, then
\* process::exit(1) or event_loop.run
WorkerStart(w) ==
  /\ proc = "running" /\ worker[w].pc = "connecting"
  /\ \E oc \in ConnectResults(worker[w].proto) :
       LET me == ConnectLoop(worker[w], oc)
       IN  IF me.pc = "panicked"
             THEN /\ worker' = [ worker EXCEPT ![w] = me ]
                  /\ UNCHANGED << proc, exitCode >>
           ELSE IF AllFailed(me)
             THEN /\ worker' = [ worker EXCEPT ![w] = [ me EXCEPT !.pc = "exit" ] ]
                  /\ proc' = "exited"
                  /\ exitCode' = 1
           ELSE /\ worker' = [ worker EXCEPT ![w] = [ me EXCEPT !.pc = "loop" ] ]
                /\ UNCHANGED << proc, exitCode >>
  /\ UNCHANGED << faults, now, flushedAt, emptyPolls, cfg, mainPc, fatal, internet_protocol, work_queue, nextItem,
                  generated, popCount, launched, chanOpen, spawned, channel,
                  sentCount, doneCount, receiver >>

\* ------------------------------------------------------------- Connection
\* a Measurement: send timestamp, completion timestamp, outcome
Stat(item, outcome, start, stop) ==
  [ item |-> item, outcome |-> outcome, start |-> start, stop |-> stop ]

\* the socket deregistered and closed
Close(conn) == [ conn EXCEPT !.state = "Closed", !.item = 0, !.interest = "none" ]

\* a dispatched connection c of worker w
Dispatch(w, c) ==
  /\ proc = "running" /\ worker[w].pc = "loop"
  /\ c \in 1 .. Len(worker[w].conns)

\* non-blocking dequeue: the connection holding the head of the queue and
\* about to write it, or unchanged when the queue is empty
Dequeue(conn) ==
  IF work_queue = <<>>
    THEN [ conn EXCEPT !.state = "Connecting", !.item = 0, !.interest = "writable" ]
    ELSE [ conn EXCEPT !.state = "Writing", !.item = Head(work_queue),
                       !.interest = "writable" ]

AfterDequeue ==
  /\ work_queue' = IF work_queue = <<>> THEN work_queue ELSE Tail(work_queue)
  /\ popCount' = IF work_queue = <<>> THEN popCount
                 ELSE [ popCount EXCEPT ![Head(work_queue)] = @ + 1 ]

\* Connecting, writable: take a request from the Work Queue
ConnDequeue(w, c) ==
  /\ Dispatch(w, c)
  /\ worker[w].conns[c].state = "Connecting"
  /\ work_queue # <<>>
  /\ worker' = [ worker EXCEPT ![w].conns[c] = Dequeue(@) ]
  /\ AfterDequeue
  /\ UNCHANGED << faults, now, flushedAt, emptyPolls, cfg, mainPc, fatal, proc, exitCode, internet_protocol,
                  nextItem, generated, launched, chanOpen, spawned, channel,
                  sentCount, doneCount, receiver >>

\* Connecting, writable, and the Work Queue is empty: nothing to write;
\* the connection stays registered for writable and will try again
ConnEmpty_closes(w, c) ==
  /\ emptyPolls < MaxEmptyPolls
  /\ emptyPolls' = emptyPolls + 1
  /\ Dispatch(w, c)
  /\ worker[w].conns[c].state = "Connecting"
  /\ work_queue = <<>>
  /\ worker' = [ worker EXCEPT ![w].conns[c] = Close(@) ]
  /\ UNCHANGED << faults, now, flushedAt, cfg, mainPc, fatal, proc, exitCode,
                  internet_protocol, work_queue, popCount, nextItem, generated,
                  launched, chanOpen, spawned, channel, sentCount, doneCount,
                  receiver >>

ConnEmpty(w, c) ==
  /\ emptyPolls < MaxEmptyPolls
  /\ emptyPolls' = emptyPolls + 1
  /\ Dispatch(w, c)
  /\ worker[w].conns[c].state = "Connecting"
  /\ work_queue = <<>>
  /\ worker' = [ worker EXCEPT ![w].conns[c] = Dequeue(@) ]
  /\ AfterDequeue
  /\ UNCHANGED << faults, now, flushedAt, cfg, mainPc, fatal, proc, exitCode,
                  internet_protocol, nextItem, generated, launched, chanOpen,
                  spawned, channel, sentCount, doneCount, receiver >>

\* on full flush: record the send timestamp, switch interest to readable
Flushed_keeps_timestamp(conn, t) ==
  [ conn EXCEPT !.state = "AwaitingResponse", !.interest = "readable" ]

Flushed(conn, t) ==
  [ conn EXCEPT !.state = "AwaitingResponse", !.interest = "readable", !.sent = t ]

\* Writing, writable: the request is fully flushed
ConnFlush(w, c) ==
  /\ Dispatch(w, c)
  /\ worker[w].conns[c].state = "Writing"
  /\ worker' = [ worker EXCEPT ![w].conns[c] = Flushed(@, now) ]
  /\ flushedAt' = [ flushedAt EXCEPT ![worker[w].conns[c].item] = now ]
  /\ UNCHANGED << faults, now, emptyPolls, cfg, mainPc, fatal, proc, exitCode, internet_protocol,
                  work_queue, nextItem, generated, popCount, launched, chanOpen,
                  spawned, channel, sentCount, doneCount, receiver >>

\* the Measurement of a finished attempt goes on the channel
Emit(item, outcome, start, stop) ==
  /\ channel' = Append(channel, Stat(item, outcome, start, stop))
  /\ sentCount' = [ sentCount EXCEPT ![item] = @ + 1 ]
  /\ doneCount' = [ doneCount EXCEPT ![item] = @ + 1 ]

\* AwaitingResponse, readable: a complete response is parsed and
\* classified, its Measurement emitted, the next request dequeued
ConnResponse(w, c) ==
  /\ Dispatch(w, c)
  /\ worker[w].conns[c].state = "AwaitingResponse"
  /\ Emit(worker[w].conns[c].item, "success", worker[w].conns[c].sent, now)
  /\ worker' = [ worker EXCEPT ![w].conns[c] = Dequeue(@) ]
  /\ AfterDequeue
  /\ UNCHANGED << faults, now, flushedAt, emptyPolls, cfg, mainPc, fatal, proc, exitCode, internet_protocol,
                  nextItem, generated, launched, chanOpen, spawned, receiver >>

\* AwaitingResponse, readable: the parser reports malformed data
ConnMalformed(w, c) ==
  /\ faults < MaxFaults
  /\ faults' = faults + 1
  /\ Dispatch(w, c)
  /\ worker[w].conns[c].state = "AwaitingResponse"
  /\ Emit(worker[w].conns[c].item, "protocol_error", worker[w].conns[c].sent, now)
  /\ worker' = [ worker EXCEPT ![w].conns[c] = Close(@) ]
  /\ UNCHANGED << now, flushedAt, emptyPolls, cfg, mainPc, fatal, proc, exitCode, internet_protocol,
                  work_queue, nextItem, generated, popCount, launched, chanOpen,
                  spawned, receiver >>

\* what a socket error or reset does to the attempt in flight, if any
FailAttempt_silent(item) ==
  /\ doneCount' = IF item = 0 THEN doneCount ELSE [ doneCount EXCEPT ![item] = @ + 1 ]
  /\ UNCHANGED << channel, sentCount >>

FailAttempt(item) ==
  IF item = 0
    THEN UNCHANGED << channel, sentCount, doneCount >>
    ELSE Emit(item, "connection_error", now, now)

\* socket error or reset in any live state
ConnError(w, c) ==
  /\ faults < MaxFaults
  /\ faults' = faults + 1
  /\ Dispatch(w, c)
  /\ worker[w].conns[c].state # "Closed"
  /\ FailAttempt(worker[w].conns[c].item)
  /\ worker' = [ worker EXCEPT ![w].conns[c] = Close(@) ]
  /\ UNCHANGED << now, flushedAt, emptyPolls, cfg, mainPc, fatal, proc, exitCode, internet_protocol,
                  work_queue, nextItem, generated, popCount, launched, chanOpen,
                  spawned, receiver >>

\* ----------------------------------------------------- workload generator
\* a generator pushes one more request; on a full queue it retries later
GenPush ==
  /\ proc = "running" /\ launched
  /\ generated < MaxGenerated
  /\ push_ok(work_queue)
  /\ work_queue' = Append(work_queue, nextItem + 1)
  /\ nextItem' = nextItem + 1
  /\ generated' = generated + 1
  /\ UNCHANGED << faults, now, flushedAt, emptyPolls, cfg, mainPc, fatal, proc, exitCode, internet_protocol,
                  popCount, launched, chanOpen, spawned, worker, channel,
                  sentCount, doneCount, receiver >>

\* --------------------------------------------------------- Stats Receiver
\* a Measurement folded into the open Window
Fold(r, stat) ==
  [ r EXCEPT !.got = @ \cup { stat.item },
             !.folded = @ \cup { stat },
             !.hist = IF stat.stop - stat.start \in Buckets
                        THEN [ @ EXCEPT ![stat.stop - stat.start] = @ + 1 ]
                        ELSE @,
             !.success = IF stat.outcome = "success" THEN @ + 1 ELSE @,
             !.protocol_error = IF stat.outcome = "protocol_error" THEN @ + 1 ELSE @,
             !.connection_error = IF stat.outcome = "connection_error" THEN @ + 1 ELSE @ ]

ReceiverRecv ==
  /\ proc = "running" /\ receiver.started
  /\ channel # <<>>
  /\ receiver' = Fold(receiver, Head(channel))
  /\ channel' = Tail(channel)
  /\ UNCHANGED << faults, now, flushedAt, emptyPolls, cfg, mainPc, fatal, proc, exitCode, internet_protocol,
                  work_queue, nextItem, generated, popCount, launched, chanOpen,
                  spawned, worker, sentCount, doneCount >>

\* the open Window sealed and its summary printed; a fresh Window opened
Sealed(r) ==
  [ success |-> r.success, protocol_error |-> r.protocol_error,
    connection_error |-> r.connection_error, hist |-> r.hist, folded |-> r.folded ]

CloseWindow_keeps_counters(r) ==
  [ r EXCEPT !.closed = @ + 1, !.summaries = @ + 1,
             !.sealed = Append(@, Sealed(r)),
             !.hist = [ b \in Buckets |-> 0 ], !.folded = {} ]

CloseWindow(r) ==
  [ r EXCEPT !.closed = @ + 1, !.summaries = @ + 1,
             !.sealed = Append(@, Sealed(r)),
             !.success = 0, !.protocol_error = 0, !.connection_error = 0,
             !.hist = [ b \in Buckets |-> 0 ], !.folded = {} ]

\* the wall clock reaches the end of the open Window; after the last
\* Window the Receiver ends the process
ReceiverWindowClose ==
  /\ proc = "running" /\ receiver.started
  /\ receiver.closed < receiver.windows
  /\ receiver' = CloseWindow(receiver)
  /\ IF receiver.closed + 1 = receiver.windows
       THEN proc' = "exited" /\ exitCode' = 0
       ELSE UNCHANGED << proc, exitCode >>
  /\ UNCHANGED << faults, now, flushedAt, emptyPolls, cfg, mainPc, fatal, internet_protocol, work_queue, nextItem,
                  generated, popCount, launched, chanOpen, spawned, worker,
                  channel, sentCount, doneCount >>

\* ------------------------------------------------------------------ clock
\* time passes: the next reading of the clock is one later
Tick ==
  /\ proc = "running"
  /\ now < MaxClock
  /\ now' = now + 1
  /\ UNCHANGED << faults, flushedAt, emptyPolls, cfg, mainPc, fatal, proc, exitCode,
                  internet_protocol, work_queue, nextItem, generated, popCount,
                  launched, chanOpen, spawned, worker, channel, sentCount,
                  doneCount, receiver >>

\* ------------------------------------------------------------------- Next
\* The steps of main, of the workers, of the generators and of the
\* Receiver within one reading of the clock and with work at hand: the
\* timestamps and the polls of an empty queue decide none of these steps.
Conns == 1 .. TableCap

Next ==
  \/ MainConfig
  \/ MainSeed
  \/ MainLaunch
  \/ MainChannel
  \/ MainSpawn
  \/ MainRun
  \/ \E w \in Threads : WorkerStart(w)
  \/ \E w \in Threads, c \in Conns : ConnDequeue(w, c)
  \/ \E w \in Threads, c \in Conns : ConnFlush(w, c)
  \/ \E w \in Threads, c \in Conns : ConnResponse(w, c)
  \/ \E w \in Threads, c \in Conns : ConnMalformed(w, c)
  \/ \E w \in Threads, c \in Conns : ConnError(w, c)
  \/ GenPush
  \/ ReceiverRecv
  \/ ReceiverWindowClose

Spec == Init /\ [][Next]_vars

\* main runs to its end; the Receiver's wall clock advances
MainStep ==
  MainConfig \/ MainSeed \/ MainLaunch \/ MainChannel \/ MainSpawn \/ MainRun

\* the run as the wall clock sees it: every Window comes to its end
FairSpec == Spec /\ WF_vars(ReceiverWindowClose)

\* the same run with time passing, against one server
TimedConfigs ==
  { c \in Configs :
      /\ c.servers = << << "v4" >> >> /\ ~c.ipv4 /\ ~c.ipv6 /\ c.load_ok
      /\ c.prepare \in 0 .. BUCKET_SIZE }

TimedInit == Init /\ cfg \in TimedConfigs

TimedNext ==
  \/ MainConfig
  \/ MainSeed
  \/ MainLaunch
  \/ MainChannel
  \/ MainSpawn
  \/ MainRun
  \/ \E w \in Threads : WorkerStart(w)
  \/ \E w \in Threads, c \in Conns : ConnDequeue(w, c)
  \/ \E w \in Threads, c \in Conns : ConnFlush(w, c)
  \/ \E w \in Threads, c \in Conns : ConnResponse(w, c)
  \/ \E w \in Threads, c \in Conns : ConnMalformed(w, c)
  \/ \E w \in Threads, c \in Conns : ConnError(w, c)
  \/ GenPush
  \/ ReceiverRecv
  \/ ReceiverWindowClose
  \/ Tick

TimedSpec == TimedInit /\ [][TimedNext]_vars

\* a responsive server: no socket error, no malformed response; a
\* connection may find the Work Queue empty
NextResponsive ==
  \/ MainConfig
  \/ MainSeed
  \/ MainLaunch
  \/ MainChannel
  \/ MainSpawn
  \/ MainRun
  \/ \E w \in Threads : WorkerStart(w)
  \/ \E w \in Threads, c \in Conns : ConnDequeue(w, c)
  \/ \E w \in Threads, c \in Conns : ConnEmpty(w, c)
  \/ \E w \in Threads, c \in Conns : ConnFlush(w, c)
  \/ \E w \in Threads, c \in Conns : ConnResponse(w, c)
  \/ GenPush
  \/ ReceiverRecv
  \/ ReceiverWindowClose

\* what an event loop does with ready connections
ConnStep ==
  \E w \in Threads, c \in Conns :
    ConnDequeue(w, c) \/ ConnEmpty(w, c) \/ ConnFlush(w, c) \/ ConnResponse(w, c)

\* fair scheduling of main, of the event loops and of the Receiver against
\* a responsive server; the wall clock, the generators and the start of
\* further workers are left free
ResponsiveSpec ==
  /\ Init /\ [][NextResponsive]_vars
  /\ WF_vars(MainStep)
  /\ WF_vars(ConnStep)
  /\ WF_vars(ReceiverRecv)

\* ----------------------------------------------------------------- claims
Started(w) == worker[w].pc \in { "loop", "exit" }

\* C1: a worker all of whose (servers x connections-per-server) initial
\* connect attempts failed ends the process with exit code 1 and never
\* runs its event loop.
C1_AllFailedExits ==
  \A w \in Threads :
    (Started(w) /\ worker[w].attempts = Requested /\ worker[w].failures = Requested)
      => (worker[w].pc = "exit" /\ proc = "exited" /\ exitCode = 1)

\* C2: a worker with at least one initial connect inserted in its table
\* does not end the process in start() and enters its dispatch loop,
\* whatever the number of failed attempts.
C2_PartialTolerated ==
  \A w \in Threads :
    (Started(w) /\ worker[w].connects >= 1) => worker[w].pc = "loop"

\* C3 as stated: with both IP-family flags set, configuration resolution
\* fails and the process exit code is 1.
C3_BothFlagsExitOne ==
  (cfg.ipv4 /\ cfg.ipv6 /\ mainPc # "config")
    => (proc = "exited" /\ exitCode = 1)

\* C3 as amended: with both IP-family flags set, main never gets past
\* configuration resolution: no restriction is chosen, main returns on one
\* of its configuration errors (the flag conflict itself when a server is
\* given and the configuration loads), and the process exit code is 0.
C3_BothFlagsReturn ==
  (cfg.ipv4 /\ cfg.ipv6 /\ mainPc # "config")
    => /\ mainPc = "returned" /\ proc = "exited" /\ exitCode = 0
       /\ internet_protocol = "unset"
       /\ fatal = IF Len(cfg.servers) < 1 THEN "no_server"
                  ELSE IF ~cfg.load_ok THEN "load_config"
                  ELSE "layer3"

C3_Witness ==
  cfg.ipv4 /\ cfg.ipv6 /\ fatal = "layer3" /\ proc = "exited" /\ exitCode = 0

\* C4: on every configuration-fatal condition (no server, configuration
\* load error, both IP-family flags, prepare error) main returns before any
\* run activity: no generator launched, no worker spawned, no connect
\* attempted, the Receiver never run.
C4_FatalBeforeRun ==
  /\ (mainPc # "config"
        /\ (Len(cfg.servers) < 1 \/ ~cfg.load_ok \/ (cfg.ipv4 /\ cfg.ipv6)))
       => fatal \in { "no_server", "load_config", "layer3" }
  /\ (mainPc \notin { "config", "seed" } /\ cfg.prepare < 0) => fatal # "none"
  /\ fatal # "none"
       => /\ mainPc = "returned" /\ proc = "exited"
          /\ ~launched /\ ~chanOpen /\ spawned = 0
          /\ \A w \in Threads : worker[w].pc = "unspawned" /\ worker[w].attempts = 0
          /\ ~receiver.started /\ receiver.summaries = 0
          /\ generated = 0 /\ channel = <<>>

C4_Witness == fatal = "prepare" /\ mainPc = "returned" /\ internet_protocol = "IpV6"

\* C5: the restriction is exactly: neither flag any, only ipv4 v4-only,
\* only ipv6 v6-only, both an error; every connect attempt of every worker
\* carries it; under v4-only no connection is established to a v6
\* endpoint, under v6-only none to a v4 endpoint.
C5_FamilyRestriction ==
  /\ (cfg.ipv4 /\ cfg.ipv6) => internet_protocol = "unset"
  /\ internet_protocol # "unset"
       => internet_protocol = IF cfg.ipv4 THEN "IpV4"
                              ELSE IF cfg.ipv6 THEN "IpV6" ELSE "Any"
  /\ \A w \in Threads :
       /\ worker[w].pc # "unspawned" => worker[w].proto = internet_protocol
       /\ worker[w].protos \subseteq { internet_protocol }
       /\ \A c \in 1 .. Len(worker[w].conns) :
            /\ cfg.ipv4 => worker[w].conns[c].fam = "v4"
            /\ cfg.ipv6 => worker[w].conns[c].fam = "v6"

C5_Witness ==
  /\ cfg.ipv6 /\ internet_protocol = "IpV6"
  /\ \E w \in Threads :
       /\ worker[w].pc = "loop" /\ worker[w].failures >= 1
       /\ Len(worker[w].conns) >= 1 /\ worker[w].conns[1].fam = "v6"

\* the requests a worker's connections hold
Held(w) == { worker[w].conns[c].item : c \in 1 .. Len(worker[w].conns) } \ { 0 }

\* C6: the Work Queue never holds more than its capacity, and every popped
\* request was pushed before and is popped at most once.
C6_QueueBounded ==
  /\ Len(work_queue) <= BUCKET_SIZE
  /\ \A k \in 1 .. Len(work_queue) :
       /\ work_queue[k] \in 1 .. nextItem
       /\ popCount[work_queue[k]] = 0
       /\ \A j \in 1 .. Len(work_queue) : work_queue[j] = work_queue[k] => j = k
  /\ \A i \in Items :
       /\ popCount[i] <= 1
       /\ popCount[i] = 1 => i <= nextItem
  /\ \A w \in Threads :
       /\ \A i \in Held(w) : popCount[i] = 1
       /\ \A c, d \in 1 .. Len(worker[w].conns) :
            (worker[w].conns[c].item # 0 /\ worker[w].conns[c].item = worker[w].conns[d].item)
              => c = d
       /\ \A v \in Threads : v # w => Held(v) \cap Held(w) = {}

C6_Witness ==
  /\ Len(work_queue) = BUCKET_SIZE /\ generated >= 1
  /\ Held(2) # {} /\ \E i \in Items : popCount[i] = 1

\* C7: every producer, the seeding in main included, waits or retries on a
\* full queue: every prepared request is accepted and a full queue never
\* aborts the producer.
C7_SeedingBackpressure ==
  /\ mainPc # "panicked"
  /\ (mainPc \notin { "config", "seed" } /\ cfg.prepare >= 0) => nextItem >= cfg.prepare

\* the Stats for request i on the channel
OnChannel(i) == { k \in 1 .. Len(channel) : channel[k].item = i }

\* C8: every attempt that completes or fails produces exactly one
\* Measurement on the channel, an attempt still under way none.
C8_OneMeasurement ==
  \A i \in Items :
    /\ doneCount[i] <= 1
    /\ sentCount[i] = doneCount[i]
    /\ Cardinality(OnChannel(i)) + (IF i \in receiver.got THEN 1 ELSE 0) = sentCount[i]
    /\ doneCount[i] = 1 => popCount[i] = 1 /\ \A w \in Threads : i \notin Held(w)

C8_Witness ==
  /\ \E k \in 1 .. Len(channel) : channel[k].outcome = "connection_error"
  /\ \E i \in Items : i \in receiver.got /\ doneCount[i] = 1

\* a worker whose initial connects were all attempted and all succeeded
AllConnected(w) ==
  Started(w) /\ worker[w].attempts = Requested /\ worker[w].failures = 0

Queued == { work_queue[k] : k \in 1 .. Len(work_queue) }

\* C9 as stated: a worker whose initial connects all succeed registers
\* exactly (servers x connections-per-server) connections, and every
\* queued WorkItem ends as one Measurement delivered to the Receiver (read
\* at the end of the run: when the Receiver has ended it, every pushed
\* WorkItem has been delivered).
C9_AllRegisteredAllDelivered ==
  /\ \A w \in Threads : AllConnected(w) => worker[w].connects = Requested
  /\ (proc = "exited" /\ exitCode = 0 /\ \E w \in Threads : AllConnected(w))
       => \A i \in 1 .. nextItem : i \in receiver.got

Min(a, b) == IF a < b THEN a ELSE b

\* C9 as amended: a worker whose initial connects all succeed has 0
\* failures, enters its loop, and registers (servers x
\* connections-per-server) connections less those a full connection table
\* rejected; then, with a responsive server and fair scheduling, every
\* queued WorkItem is eventually dequeued and leads to one Measurement
\* delivered to the Receiver, unless the process terminates first.
C9_RegisteredThenDelivered ==
  /\ [](\A w \in Threads :
          AllConnected(w)
            => /\ worker[w].pc = "loop"
               /\ worker[w].connects = Min(Requested, TableCap)
               /\ worker[w].connects + worker[w].rejected = Requested
               /\ Len(worker[w].conns) = worker[w].connects)
  /\ \A i \in Items :
       ((\E w \in Threads : AllConnected(w)) /\ i \in Queued)
         ~> ((i \in receiver.got /\ sentCount[i] = 1) \/ proc = "exited")

C9_Witness ==
  /\ cfg.threads = 1 /\ Len(cfg.servers) = 1 /\ cfg.connections = 2
  /\ AllConnected(1) /\ worker[1].connects = 2
  /\ receiver.got = { 1, 2 } /\ proc = "running"

ProcessEnds == proc = "running" /\ proc' = "exited"

\* the Receiver seals its last Window in this step
FinalWindowCloses ==
  /\ receiver.started /\ receiver.closed + 1 = cfg.windows
  /\ receiver'.closed = cfg.windows

\* C11 as stated: the Receiver is the sole authority on the run's end: once
\* the run has started no worker stops on its own, and the process ends
\* only by the Receiver sealing its final Window.
C11_OnlyReceiverEnds ==
  [][/\ (launched /\ ProcessEnds) => (FinalWindowCloses /\ exitCode' = 0)
     /\ \A w \in Threads :
          worker[w].pc \in { "connecting", "loop" }
            => worker'[w].pc \in { "connecting", "loop" }]_vars

\* C11 as amended: once the run has started the process ends only by the
\* Receiver sealing its final Window (status 0) or by a worker's
\* process::exit(1) at the end of its initial connects; a worker that has
\* entered its dispatch loop never leaves it and never ends the run; a
\* worker stops on its own only during start (exit, or a panic of its
\* thread).
C11_ReceiverOrFailFast ==
  [][/\ (launched /\ ProcessEnds)
          => \/ FinalWindowCloses /\ exitCode' = 0 /\ worker' = worker
             \/ /\ exitCode' = 1 /\ receiver' = receiver
                /\ \E w \in Threads :
                     /\ worker[w].pc = "connecting" /\ worker'[w].pc = "exit"
                     /\ \A v \in Threads \ { w } : worker'[v] = worker[v]
     /\ \A w \in Threads :
          /\ worker[w].pc = "loop" => worker'[w].pc = "loop"
          /\ (worker[w].pc # worker'[w].pc /\ worker'[w].pc \in { "exit", "panicked" })
               => worker[w].pc = "connecting"]_vars

C11_Witness ==
  /\ cfg.threads = 2 /\ receiver.started /\ receiver.closed = cfg.windows
  /\ proc = "exited" /\ exitCode = 0
  /\ \A w \in Threads : worker[w].pc = "loop" /\ worker[w].connects >= 1
  /\ \E i \in Items : doneCount[i] = 1

\* the endpoints of server number s that the restriction lets through
AllowedAt(s, proto) ==
  { k \in 1 .. Len(cfg.servers[s]) : Allowed(cfg.servers[s][k], proto) }

\* C14: the restriction is applied before the endpoint is chosen: a server
\* with an endpoint that satisfies the restriction is attempted on the
\* first such endpoint, whatever the family of its first resolved endpoint.
C14_RestrictThenChoose ==
  \A w \in Threads :
    \A a \in worker[w].addrs :
      AllowedAt(a[1], worker[w].proto) # {}
        => \E k \in AllowedAt(a[1], worker[w].proto) :
             /\ \A j \in AllowedAt(a[1], worker[w].proto) : k <= j
             /\ a[2] = cfg.servers[a[1]][k]

\* C15: with two or more workers, a worker all of whose initial connect
\* attempts failed has ended the whole process with a non-zero status.
C15_FailFastProcessWide ==
  cfg.threads >= 2
    => \A w \in Threads :
         (Started(w) /\ worker[w].attempts = Requested /\ worker[w].failures = Requested)
           => (proc = "exited" /\ exitCode \notin { -1, 0 })

\* C16: when a worker enters its dispatch loop, every connection of its
\* table sits in a slot of its own, carries that slot as its token, and is
\* registered exactly once, for writable only, edge-triggered and one-shot;
\* the table holds as many connections as start counted in `connects`.
C16_TableAtLoopEntry ==
  [][\A w \in Threads :
       (worker[w].pc = "connecting" /\ worker'[w].pc = "loop")
         => /\ Len(worker'[w].conns) = worker'[w].connects
            /\ Len(worker'[w].conns) <= TableCap
            /\ \A c \in 1 .. Len(worker'[w].conns) :
                 /\ worker'[w].conns[c].token = c
                 /\ worker'[w].conns[c].state = "Connecting"
                 /\ worker'[w].conns[c].regs = 1
                 /\ worker'[w].conns[c].interest = "writable"
                 /\ worker'[w].conns[c].opts = { "edge", "oneshot" }
                 /\ \A d \in 1 .. Len(worker'[w].conns) :
                      worker'[w].conns[d].token = worker'[w].conns[c].token => d = c]_vars

C16_Witness ==
  /\ Requested = 4
  /\ \E w \in Threads :
       /\ worker[w].pc = "loop" /\ worker[w].connects = 2
       /\ worker[w].failures = 1 /\ worker[w].rejected = 1
       /\ \A c \in 1 .. 2 : worker[w].conns[c].state = "Connecting"

C19_StartupOrder ==
  /\ [](/\ launched => (cfg.prepare >= 0 /\ nextItem >= cfg.prepare)
        /\ spawned >= 1 => (launched /\ chanOpen)
        /\ (\E w \in Threads : worker[w].pc # "unspawned") => spawned >= 1
        /\ receiver.started => spawned = cfg.threads
        /\ ~receiver.started
             => /\ receiver.got = {} /\ receiver.summaries = 0
                /\ \A i \in Items : Cardinality(OnChannel(i)) = sentCount[i])
  /\ [][/\ (~launched /\ launched')
             => /\ Len(work_queue) = cfg.prepare /\ generated = 0 /\ spawned = 0
                /\ \A k \in 1 .. cfg.prepare : work_queue[k] = k
        /\ spawned' # spawned => (chanOpen /\ launched /\ ~receiver.started)
        /\ (~receiver.started /\ receiver'.started) => channel' = channel]_vars

C19_Witness ==
  /\ cfg.threads = 2 /\ spawned = 1 /\ ~receiver.started
  /\ worker[1].pc = "loop" /\ channel # <<>>

\* every Measurement there is: on the channel, in the open Window, in a
\* sealed Window
AllStats ==
  { channel[k] : k \in 1 .. Len(channel) }
    \cup receiver.folded
    \cup UNION { receiver.sealed[k].folded : k \in 1 .. Len(receiver.sealed) }

\* C12: the latency of a completed request is its completion timestamp
\* minus the send timestamp recorded at the full flush of that same
\* request, and is not negative; a connection waiting for a response holds
\* the send timestamp of the request it waits for.
C12_OwnSendTimestamp ==
  /\ \A st \in AllStats :
       /\ st.stop - st.start >= 0 /\ st.stop <= now
       /\ st.outcome = "success" => st.start = flushedAt[st.item]
  /\ \A w \in Threads :
       \A c \in 1 .. Len(worker[w].conns) :
         worker[w].conns[c].state = "AwaitingResponse"
           => worker[w].conns[c].sent = flushedAt[worker[w].conns[c].item]

C12_Witness ==
  \E s1, s2 \in AllStats :
    /\ s1.item # s2.item /\ s1.outcome = "success" /\ s2.outcome = "success"
    /\ s1.start < s2.start /\ s2.stop > s2.start
    /\ \E w \in Threads : Len(worker[w].conns) = 1

RECURSIVE SumTo(_, _)
SumTo(h, n) == IF n < 0 THEN 0 ELSE h[n] + SumTo(h, n - 1)

Latency(st) == st.stop - st.start

\* the counters and the histogram of a Window agree with what was folded
WindowAgrees(win) ==
  /\ win.success + win.protocol_error + win.connection_error = Cardinality(win.folded)
  /\ win.success = Cardinality({ st \in win.folded : st.outcome = "success" })
  /\ win.protocol_error = Cardinality({ st \in win.folded : st.outcome = "protocol_error" })
  /\ win.connection_error = Cardinality({ st \in win.folded : st.outcome = "connection_error" })
  /\ SumTo(win.hist, HistBuckets - 1)
       = Cardinality({ st \in win.folded : Latency(st) \in Buckets })
  /\ \A b \in Buckets :
       win.hist[b] = Cardinality({ st \in win.folded : Latency(st) = b })

\* the Windows so far: the sealed ones, then the open one
WindowsSoFar == Append(receiver.sealed, Sealed(receiver))

\* C13: in the open Window and in every sealed Window the per-outcome
\* counters sum to the number of Measurements folded into it and the
\* histogram buckets sum to the number of those whose latency has a
\* bucket; every Measurement received is folded into exactly one Window.
C13_WindowCounts ==
  /\ Len(receiver.sealed) = receiver.closed
  /\ \A k \in 1 .. Len(WindowsSoFar) : WindowAgrees(WindowsSoFar[k])
  /\ \A i \in Items :
       Cardinality({ k \in 1 .. Len(WindowsSoFar) :
                      \E st \in WindowsSoFar[k].folded : st.item = i })
         = IF i \in receiver.got THEN 1 ELSE 0
  /\ \A k \in 1 .. Len(WindowsSoFar) :
       \A st, su \in WindowsSoFar[k].folded : st.item = su.item => st = su

C13_Witness ==
  /\ Len(receiver.sealed) >= 1 /\ receiver.sealed[1].folded # {}
  /\ \E st \in receiver.folded : Latency(st) \notin Buckets

\* some worker is in its dispatch loop with a connection
Dispatching == \E w \in Threads : worker[w].pc = "loop" /\ Len(worker[w].conns) >= 1

\* connection c of worker w has a request to write and is dispatched
HasRequest(w, c) ==
  /\ worker[w].pc = "loop" /\ c <= Len(worker[w].conns)
  /\ worker[w].conns[c].state = "Writing"

====
